---- MODULE Spec2Model ----
(***************************************************************************)
(* Model of StimuliGenerator: the path parser (parse_svg_str), the batch   *)
(* loader (Window.create_curves), the sampler (curve_as_points / drange)   *)
(* and the two sessions that consume the sampled points                    *)
(* (VideoSession.start, Window.__init__).                                  *)
(*                                                                         *)
(* Numbers.  The sampler mixes binary floating point (the step, the        *)
(* parameters handed to pointAtTime) with the decimal module (the          *)
(* accumulator x of drange).  Both are modelled exactly:                   *)
(*   - a natural number of any size is a sequence of decimal digits, most  *)
(*     significant first, without leading zeros (<<>> is 0);               *)
(*   - a float is [neg, num, k], the value (+/-) num / 2^k in lowest       *)
(*     terms (float.as_integer_ratio());                                   *)
(*   - a Decimal is [neg, dig, exp], the value (+/-) dig * 10^exp          *)
(*     (Decimal.as_tuple()).                                               *)
(***************************************************************************)
EXTENDS Integers, Sequences, FiniteSets, TLC

\* ------------------------------------------------------------------------
\* Natural numbers of any size, as digit sequences
\* ------------------------------------------------------------------------

\* Operator arguments are evaluated on demand; the recursive operators below test
\* each running value (carry, remainder, accumulator) as they go, so that it is
\* computed at its own step.

RECURSIVE NatDigits(_)
NatDigits(n) == IF n = 0 THEN <<>> ELSE Append(NatDigits(n \div 10), n % 10)

RECURSIVE StripZeros(_)
StripZeros(a) == IF a # <<>> /\ a[1] = 0 THEN StripZeros(Tail(a)) ELSE a

RECURSIVE Zeros(_)
Zeros(n) == IF n <= 0 THEN <<>> ELSE Append(Zeros(n - 1), 0)

\* -1, 0, 1 as a < b, a = b, a > b
RECURSIVE LexCmp(_, _, _)
LexCmp(a, b, i) ==
  IF i > Len(a) THEN 0
  ELSE IF a[i] < b[i] THEN -1
  ELSE IF a[i] > b[i] THEN 1
  ELSE LexCmp(a, b, i + 1)

BigCmp(a, b) ==
  IF Len(a) < Len(b) THEN -1
  ELSE IF Len(a) > Len(b) THEN 1
  ELSE LexCmp(a, b, 1)

\* the digits of a[1..i] * n + carry, for a small n
RECURSIVE MulCarry(_, _, _, _)
MulCarry(a, n, i, carry) ==
  IF i = 0 THEN NatDigits(carry)
  ELSE LET v == a[i] * n + carry
       IN  IF v < 10 THEN Append(MulCarry(a, n, i - 1, 0), v)
           ELSE Append(MulCarry(a, n, i - 1, v \div 10), v % 10)

BigMulSmall(a, n) == StripZeros(MulCarry(a, n, Len(a), 0))

\* a and b of the same length: the digits of a[1..i] + b[1..i] + carry
RECURSIVE AddCarry(_, _, _, _)
AddCarry(a, b, i, carry) ==
  IF i = 0 THEN NatDigits(carry)
  ELSE LET v == a[i] + b[i] + carry
       IN  IF v < 10 THEN Append(AddCarry(a, b, i - 1, 0), v)
           ELSE Append(AddCarry(a, b, i - 1, 1), v - 10)

BigAdd(a, b) ==
  LET n  == IF Len(a) > Len(b) THEN Len(a) ELSE Len(b)
      pa == Zeros(n - Len(a)) \o a
      pb == Zeros(n - Len(b)) \o b
  IN  AddCarry(pa, pb, n, 0)

\* a >= b, same length after padding: the digits of a - b
RECURSIVE SubBorrow(_, _, _, _)
SubBorrow(a, b, i, borrow) ==
  IF i = 0 THEN <<>>
  ELSE LET v == a[i] - b[i] - borrow
       IN  IF v < 0 THEN Append(SubBorrow(a, b, i - 1, 1), v + 10)
           ELSE Append(SubBorrow(a, b, i - 1, 0), v)

BigSub(a, b) ==
  LET pb == Zeros(Len(a) - Len(b)) \o b
  IN  StripZeros(SubBorrow(a, pb, Len(a), 0))

\* long division by a small q: [quo, rem]
RECURSIVE DivStep(_, _, _, _, _)
DivStep(a, q, i, rem, acc) ==
  IF i > Len(a) \/ Len(acc) # i - 1 THEN [quo |-> StripZeros(acc), rem |-> rem]
  ELSE LET v == rem * 10 + a[i]
       IN  DivStep(a, q, i + 1, v % q, Append(acc, v \div q))

BigDivSmall(a, q) == DivStep(a, q, 1, 0, <<>>)

RECURSIVE BigMulPow(_, _, _)
\* a * b^e for a small base b, ten factors at a time
BigMulPow(a, b, e) ==
  IF e <= 0 \/ a = <<>> THEN a
  ELSE IF e >= 10 THEN BigMulPow(BigMulSmall(a, b^10), b, e - 10)
  ELSE BigMulPow(BigMulSmall(a, b), b, e - 1)

IsEven(a) == a = <<>> \/ a[Len(a)] % 2 = 0

\* ------------------------------------------------------------------------
\* Binary floating point (IEEE double, round to nearest, ties to even)
\* ------------------------------------------------------------------------

MantBits == 52

Pow2(e) == BigMulPow(<<1>>, 2, e)

ZeroFloat == [neg |-> FALSE, num |-> <<>>, k |-> 0]

\* num / 2^k in lowest terms
RECURSIVE Reduce(_, _, _)
Reduce(neg, num, k) ==
  IF k > 0 /\ IsEven(num) THEN Reduce(neg, BigDivSmall(num, 2).quo, k - 1)
  ELSE [neg |-> neg, num |-> num, k |-> k]

\* scale A by 2^m until T <= A < 2T; T is 2^52 times the denominator
RECURSIVE Normalize(_, _, _)
Normalize(A, T, m) ==
  LET far  == BigMulSmall(A, 2^20)
      near == BigMulSmall(A, 2^4)
  IN  IF m < 0 THEN [A |-> A, m |-> m]
      ELSE IF BigCmp(far, T) < 0 THEN Normalize(far, T, m + 20)
      ELSE IF BigCmp(near, T) < 0 THEN Normalize(near, T, m + 4)
      ELSE IF BigCmp(A, T) < 0 THEN Normalize(BigMulSmall(A, 2), T, m + 1)
      ELSE [A |-> A, m |-> m]

\* the double nearest to p / q, p and q small positive integers, p / q < 2^53
FloatOfRatio(neg, p, q) ==
  LET nz == Normalize(NatDigits(p), BigMulSmall(Pow2(MantBits), q), 0)
      dv == BigDivSmall(nz.A, q)
      up == 2 * dv.rem > q \/ (2 * dv.rem = q /\ ~IsEven(dv.quo))
      kk == IF up THEN BigAdd(dv.quo, <<1>>) ELSE dv.quo
  IN  Reduce(neg, kk, nz.m)

FloatIsZero(f) == f.num = <<>>

\* -1, 0, 1 as a < b, a = b, a > b
FloatCmp(a, b) ==
  LET sa == IF FloatIsZero(a) THEN 0 ELSE IF a.neg THEN -1 ELSE 1
      sb == IF FloatIsZero(b) THEN 0 ELSE IF b.neg THEN -1 ELSE 1
      mag == BigCmp(BigMulPow(a.num, 2, b.k), BigMulPow(b.num, 2, a.k))
  IN  IF sa # sb THEN (IF sa < sb THEN -1 ELSE 1)
      ELSE IF sa >= 0 THEN mag ELSE 0 - mag

OneFloat == [neg |-> FALSE, num |-> <<1>>, k |-> 0]

\* ------------------------------------------------------------------------
\* The decimal module (default context: 28 significant digits, half even)
\* ------------------------------------------------------------------------

DecimalPrec == 28

\* the int 0 that drange starts from, as a Decimal
ZeroDec == [neg |-> FALSE, dig |-> <<>>, exp |-> 0]

\* decimal.Decimal(jump): the exact value of the float
DecimalOfFloat(f) == [neg |-> f.neg, dig |-> BigMulPow(f.num, 5, f.k), exp |-> 0 - f.k]

\* rounding of an exact result to the context's precision
DecFix(d) ==
  LET n == Len(d.dig)
  IN  IF n <= DecimalPrec THEN d
      ELSE LET keep == SubSeq(d.dig, 1, DecimalPrec)
               rest == SubSeq(d.dig, DecimalPrec + 1, n)
               half == <<5>> \o Zeros(n - DecimalPrec - 1)
               c    == LexCmp(rest, half, 1)
               up   == c > 0 \/ (c = 0 /\ ~IsEven(keep))
               kept == IF up THEN BigAdd(keep, <<1>>) ELSE keep
           IN  IF Len(kept) > DecimalPrec
               THEN [neg |-> d.neg, dig |-> SubSeq(kept, 1, DecimalPrec),
                     exp |-> d.exp + (n - DecimalPrec) + 1]
               ELSE [neg |-> d.neg, dig |-> kept, exp |-> d.exp + (n - DecimalPrec)]

\* a + b in the context; a is zero or has the sign of b (x and the step in drange)
DecAdd(a, b) ==
  LET e  == IF a.exp < b.exp THEN a.exp ELSE b.exp
      ca == StripZeros(a.dig \o Zeros(a.exp - e))
      cb == StripZeros(b.dig \o Zeros(b.exp - e))
  IN  DecFix([neg |-> b.neg, dig |-> BigAdd(ca, cb), exp |-> e])

\* x < 1 for a Decimal x
DecLessOne(d) ==
  IF d.dig = <<>> \/ d.neg THEN TRUE
  ELSE d.exp < 0 /\ Len(d.dig) <= 0 - d.exp

\* x <= 1 for a Decimal x
DecAtMostOne(d) ==
  IF DecLessOne(d) THEN TRUE
  ELSE StripZeros(d.dig \o Zeros(d.exp)) = <<1>> \o Zeros(0 - d.exp)

\* float(x): the double nearest to a Decimal of magnitude below 2^53
FloatOfDecimal(d) ==
  IF d.dig = <<>> THEN ZeroFloat
  ELSE LET j  == IF d.exp < 0 THEN 0 - d.exp ELSE 0
           nz == Normalize(d.dig \o Zeros(d.exp), Pow2(MantBits) \o Zeros(j), 0)
           n  == Len(nz.A)
           q  == SubSeq(nz.A, 1, n - j)
           r  == SubSeq(nz.A, n - j + 1, n)
           c  == IF j = 0 THEN -1 ELSE LexCmp(r, <<5>> \o Zeros(j - 1), 1)
           up == c > 0 \/ (c = 0 /\ ~IsEven(q))
           kk == IF up THEN BigAdd(q, <<1>>) ELSE q
       IN  Reduce(d.neg, kk, nz.m)

\* ------------------------------------------------------------------------
\* parse_svg_str.  A string is a sequence of one-character strings.
\* ------------------------------------------------------------------------

DigitChars == <<"0", "1", "2", "3", "4", "5", "6", "7", "8", "9">>

IsDigit(c) == \E d \in 1..Len(DigitChars) : DigitChars[d] = c

DigitVal(c) == (CHOOSE d \in 1..Len(DigitChars) : DigitChars[d] = c) - 1

\* the pieces of s between the characters of seps, empty pieces included
RECURSIVE SplitAt(_, _)
SplitAt(s, seps) ==
  IF \E i \in 1..Len(s) : s[i] \in seps
  THEN LET i == CHOOSE i \in 1..Len(s) :
                   s[i] \in seps /\ \A j \in 1..(i - 1) : s[j] \notin seps
       IN  <<SubSeq(s, 1, i - 1)>> \o SplitAt(SubSeq(s, i + 1, Len(s)), seps)
  ELSE <<s>>

\* re.split(r"C|L", svg_str)
ReSplitCL(s) == SplitAt(s, {"C", "L"})

\* str.strip(chars)
Strip(s, chars) ==
  LET keep == {i \in 1..Len(s) : s[i] \notin chars}
  IN  IF keep = {} THEN <<>>
      ELSE SubSeq(s, CHOOSE i \in keep : \A j \in keep : i <= j,
                     CHOOSE i \in keep : \A j \in keep : i >= j)

NonEmpty(t) == t # <<>>

\* str.split(): the maximal runs of non-blank characters
SplitBlanks(s) == SelectSeq(SplitAt(s, {" "}), NonEmpty)

\* float(token) for a token over digits, ",", "M" and "Z": a run of digits is
\* its value, anything else raises ValueError
FloatOk(tok) == tok # <<>> /\ \A i \in 1..Len(tok) : IsDigit(tok[i])

RECURSIVE FloatVal(_)
FloatVal(tok) ==
  IF tok = <<>> THEN 0
  ELSE FloatVal(SubSeq(tok, 1, Len(tok) - 1)) * 10 + DigitVal(tok[Len(tok)])

\* line 108: [svg_part.strip(" ZM").split("L") for svg_part in re.split(...)]
SvgParts(s) ==
  LET parts == ReSplitCL(s)
  IN  [i \in 1..Len(parts) |-> SplitAt(Strip(parts[i], {" ", "Z", "M"}), {"L"})]

LongEnough(elem) == Len(elem[1]) > 1

\* line 109: the token lists of the parts whose text is longer than one character
SvgTokens(s) ==
  LET kept == SelectSeq(SvgParts(s), LongEnough)
  IN  [i \in 1..Len(kept) |-> SplitBlanks(kept[i][1])]

Node(xv, yv, t) == [x |-> xv, y |-> yv, type |-> t]

\* the body of the loop, lines 112-117: the nodes one path contributes
PathNodes(path, i, n) ==
  IF i = 0 \/ i = n - 1
  THEN <<Node(path[1], path[2], "curve")>>
  ELSE <<Node(path[1], path[2], "offcurve"), Node(path[3], path[4], "offcurve"),
         Node(path[5], path[6], "curve")>>

\* the numbers the loop body reads from a path: path[1] (ends), path[5] (interior)
PathNeeds(i, n) == IF i = 0 \/ i = n - 1 THEN 2 ELSE 6

RECURSIVE NodesFrom(_, _)
NodesFrom(paths, i) ==
  IF i >= Len(paths) THEN <<>>
  ELSE PathNodes(paths[i + 1], i, Len(paths)) \o NodesFrom(paths, i + 1)

\* parse_svg_str(svg_str): the nodes, or the exception it raises
parse_svg_str(s) ==
  LET toks == SvgTokens(s)
  IN  IF \E i \in 1..Len(toks) : \E j \in 1..Len(toks[i]) : ~FloatOk(toks[i][j])
      THEN [err |-> "ValueError", nodes |-> <<>>]
      ELSE LET paths == [i \in 1..Len(toks) |->
                           [j \in 1..Len(toks[i]) |-> FloatVal(toks[i][j])]]
           IN  IF \E i \in 1..Len(paths) : Len(paths[i]) < PathNeeds(i - 1, Len(paths))
               THEN [err |-> "IndexError", nodes |-> <<>>]
               ELSE [err |-> "none", nodes |-> NodesFrom(paths, 0)]

\* ------------------------------------------------------------------------
\* Path strings: "M" and its numbers, then each command with its numbers, an
\* optional closing "Z".  The numbers of a string are 1, 2, 3, ... in order.
\* ------------------------------------------------------------------------

MaxChunks == 2

MoveCounts == {0, 2}
ChunkCounts == {0, 1, 2, 5, 6, 7}
Commands == {"C", "L"}
Separators == {" ", ","}

Chunk == [cmd : Commands, n : ChunkCounts]

ChunkSeqs == UNION {[1..k -> Chunk] : k \in 0..MaxChunks}

Shapes == [move : MoveCounts, chunks : ChunkSeqs, sep : Separators, close : BOOLEAN]

RECURSIVE DigitText(_)
DigitText(n) ==
  IF n < 10 THEN <<DigitChars[n + 1]>>
  ELSE Append(DigitText(n \div 10), DigitChars[(n % 10) + 1])

\* the numbers first .. first + n - 1; sep between the two numbers of a pair
RECURSIVE NumbersText(_, _, _, _)
NumbersText(first, n, sep, k) ==
  IF k > n THEN <<>>
  ELSE (IF k = 1 THEN <<>> ELSE IF k % 2 = 0 THEN <<sep>> ELSE <<" ">>)
       \o DigitText(first + k - 1) \o NumbersText(first, n, sep, k + 1)

RECURSIVE ChunksText(_, _, _)
ChunksText(sh, i, first) ==
  IF i > Len(sh.chunks) THEN (IF sh.close THEN <<" ", "Z">> ELSE <<>>)
  ELSE <<" ", sh.chunks[i].cmd>> \o NumbersText(first, sh.chunks[i].n, sh.sep, 1)
       \o ChunksText(sh, i + 1, first + sh.chunks[i].n)

PathText(sh) == <<"M">> \o NumbersText(1, sh.move, sh.sep, 1) \o ChunksText(sh, 1, sh.move + 1)

RECURSIVE TotalNumbers(_, _)
TotalNumbers(sh, i) ==
  IF i > Len(sh.chunks) THEN sh.move ELSE sh.chunks[i].n + TotalNumbers(sh, i + 1)

\* ------------------------------------------------------------------------
\* Bounds and input domains of the sessions
\* ------------------------------------------------------------------------

\* curve.length ranges over the integer-valued floats 0.0 .. MaxLength
MaxLength == 13

\* a stepping loop that has not ended after MaxPoints points is left running
MaxPoints == 30

\* the space key is pressed at most MaxPresses times in a window
MaxPresses == 2

\* tpf in halves: -1.0, 0.0, 0.5, 1.0, 2.0
TpfHalves == {-2, 0, 1, 2, 4}

Modes == {"video", "interactive"}

NoFloat == [neg |-> FALSE, num |-> <<>>, k |-> -1]

VARIABLES
  mode,       \* which front end runs the session
  length,     \* curve.length of the loaded curve
  tpf2,       \* tpf of VideoSession.start, in halves
  pc,         \* position in the session
  time_step,  \* time_step of curve_as_points
  x,          \* the accumulator x of drange
  points,     \* the points collected by curve_as_points, in order
  err,        \* the exception that ended the session, or "none"
  opened,     \* result of out_video.open: "unset", "ok", "failed"
  frames,     \* frames written to out_video, or points painted by repaint()
  json,       \* records dumped by save_curve_points
  saved,      \* the JSON file has been written
  point,      \* Window.point, the point the interactive window paints
  presses,    \* how many times keyPressEvent received the space key
  draw_i,     \* how many points the running loop of draw_points has taken
  names       \* the names the body of video_writer.py has bound

dvars == <<presses, draw_i>>

svars == <<mode, length, tpf2, pc, time_step, x, points, err, opened, frames,
           json, saved, point, dvars, names>>

VARIABLES
  shape,      \* the commands and number counts the path string is made of
  svg_str,    \* the argument of parse_svg_str
  ppc,        \* "call", "returned" or "raised"
  result      \* what parse_svg_str returned or raised

pvars == <<shape, svg_str, ppc, result>>

VARIABLES
  files,      \* the path files glob finds in the directory, in order
  lpc,        \* position in Window.__init__
  curve_idx,  \* index of the next file of the loop of create_curves
  curves,     \* the curves dictionary
  locals,     \* which of root, path_svg, node_list are bound in create_curves
  failures,   \* indices of the files whose failure was printed
  lerr,       \* the exception that ended Window.__init__, or "none"
  curve_num,  \* Window.curve_num
  curve       \* Window.curve

lvars == <<files, lpc, curve_idx, curves, locals, failures, lerr, curve_num, curve>>

vars == <<svars, pvars, lvars>>

\* ------------------------------------------------------------------------
\* curve_as_points and drange
\* ------------------------------------------------------------------------

\* curve.pointAtTime(t) of the beziers library: the point of the curve at t
PointAtTime(t) == [at |-> t]
PX(p) == <<"x", p.at>>
PY(p) == <<"y", p.at>>

Abs(n) == IF n < 0 THEN 0 - n ELSE n

\* twice the divisor of the step: length (interactive) or length * tpf (video);
\* the products are exact in floating point for these inputs
Divisor2(m, len, t2) == IF m = "video" THEN len * t2 ELSE len * 2

\* time_step = 1 / length, or 1 / (curve.length * tpf)
TimeStep(m, len, t2) ==
  LET d2 == Divisor2(m, len, t2)
  IN  FloatOfRatio(d2 < 0, 2, Abs(d2))

\* the loop test of drange, "while x < y" with y = 1
DrangeContinuesLe(xx) == DecAtMostOne(xx)
DrangeContinues(xx) == DecLessOne(xx)

\* "yield float(x)"
DrangeYield(xx) == FloatOfDecimal(xx)

\* "x += decimal.Decimal(jump)"
DrangeAdvance(xx, jump) == DecAdd(xx, DecimalOfFloat(jump))

\* curve_as_points up to the first test of drange; 1 / 0.0 raises
ComputeStep ==
  /\ pc = "start"
  /\ IF Divisor2(mode, length, tpf2) = 0
     THEN /\ pc' = "raised"
          /\ err' = "ZeroDivisionError"
          /\ UNCHANGED <<time_step, x>>
     ELSE /\ pc' = "drange"
          /\ time_step' = TimeStep(mode, length, tpf2)
          /\ x' = ZeroDec
          /\ err' = err
  /\ UNCHANGED <<mode, length, tpf2, points, opened, frames, json, saved, point>>
  /\ UNCHANGED <<names, dvars, pvars, lvars>>

\* one iteration of the comprehension over drange(0, 1, time_step)
DrangeStep ==
  /\ pc = "drange"
  /\ DrangeContinues(x)
  /\ Len(points) < MaxPoints
  /\ points' = Append(points, PointAtTime(DrangeYield(x)))
  /\ x' = DrangeAdvance(x, time_step)
  /\ UNCHANGED <<mode, length, tpf2, pc, time_step, err, opened, frames, json,
                 saved, point>>
  /\ UNCHANGED <<names, dvars, pvars, lvars>>

\* drange is exhausted: curve_as_points returns
DrangeExit ==
  /\ pc = "drange"
  /\ ~DrangeContinues(x)
  /\ pc' = "sampled"
  /\ UNCHANGED <<mode, length, tpf2, time_step, x, points, err, opened, frames,
                 json, saved, point>>
  /\ UNCHANGED <<names, dvars, pvars, lvars>>

\* ------------------------------------------------------------------------
\* VideoSession.start, after curve_as_points
\* ------------------------------------------------------------------------

Frame(idx, p) == [idx |-> idx, point |-> p]

\* the names the body of video_writer.py binds before save_curve_points
ModuleNames == {"Frame", "VideoSession", "parse_svg_str", "curve_as_points"}

\* the body of video_writer.py runs. "def save_curve_points(...) -> NoReturn"
\* names an annotation the module never imports: an interpreter that evaluates
\* annotations when the def runs raises NameError there and the module does not
\* load; one that defers them binds the function and the session can start
ExecModule ==
  /\ pc = "module"
  /\ \E deferred \in BOOLEAN :
       IF deferred
       THEN /\ names' = ModuleNames \cup {"save_curve_points"}
            /\ pc' = "start"
            /\ err' = err
       ELSE /\ names' = ModuleNames
            /\ pc' = "raised"
            /\ err' = "NameError"
  /\ UNCHANGED <<mode, length, tpf2, time_step, x, points, opened, frames,
                 json, saved, point>>
  /\ UNCHANGED <<dvars, pvars, lvars>>

\* save_curve_points of video_writer.py: {"x", "y", "idx"} per point
SaveCurvePointsFrom1(pts) ==
  [i \in 1..Len(pts) |-> [x |-> PX(pts[i]), y |-> PY(pts[i]), idx |-> i]]
SaveCurvePoints(pts) ==
  [i \in 1..Len(pts) |-> [x |-> PX(pts[i]), y |-> PY(pts[i]), idx |-> i - 1]]

\* Window.save_curve_points of main.py: {"x", "y"} per point
WindowSaveCurvePoints(pts) ==
  [i \in 1..Len(pts) |-> [x |-> PX(pts[i]), y |-> PY(pts[i])]]

\* "if len(points) < 1: return", then out_video.open(...), which may fail
OpenVideo ==
  /\ pc = "sampled"
  /\ mode = "video"
  /\ IF Len(points) < 1
     THEN pc' = "done" /\ opened' = opened
     ELSE \E success \in BOOLEAN :
            /\ opened' = IF success THEN "ok" ELSE "failed"
            /\ pc' = IF success THEN "write" ELSE "release"
  /\ UNCHANGED <<mode, length, tpf2, time_step, x, points, err, frames, json,
                 saved, point>>
  /\ UNCHANGED <<names, dvars, pvars, lvars>>

\* one iteration of "for idx, point in enumerate(points)": a frame is written
WriteFrame ==
  /\ pc = "write"
  /\ Len(frames) < Len(points)
  /\ frames' = Append(frames, Frame(Len(frames), points[Len(frames) + 1]))
  /\ pc' = IF Len(frames') = Len(points) THEN "release" ELSE "write"
  /\ UNCHANGED <<mode, length, tpf2, time_step, x, points, err, opened, json,
                 saved, point>>
  /\ UNCHANGED <<names, dvars, pvars, lvars>>

\* out_video.release() and save_curve_points(points, out_dir, out_fn), whose
\* open(..., 'w') raises when out_dir is missing
ReleaseAndSave ==
  /\ pc = "release"
  /\ "save_curve_points" \in names
  /\ \E writable \in BOOLEAN :
       /\ json' = IF writable THEN SaveCurvePoints(points) ELSE json
       /\ saved' = writable
       /\ pc' = IF writable THEN "done" ELSE "raised"
       /\ err' = IF writable THEN err ELSE "FileNotFoundError"
  /\ UNCHANGED <<mode, length, tpf2, time_step, x, points, opened, frames,
                 point>>
  /\ UNCHANGED <<names, dvars, pvars, lvars>>

\* ------------------------------------------------------------------------
\* Window.__init__, after curve_as_points, and the drawing of the stimulus
\* ------------------------------------------------------------------------

NoPoint == [at |-> NoFloat]

\* "self.point = self.points[0]" and "self.save_curve_points()", whose
\* open("results/...", 'w') raises when the directory results is missing
WindowPoints ==
  /\ pc = "sampled"
  /\ mode = "interactive"
  /\ IF Len(points) < 1
     THEN /\ pc' = "raised"
          /\ err' = "IndexError"
          /\ UNCHANGED <<point, json, saved>>
     ELSE \E writable \in BOOLEAN :
            /\ point' = points[1]
            /\ json' = IF writable THEN WindowSaveCurvePoints(points) ELSE json
            /\ saved' = writable
            /\ pc' = IF writable THEN "shown" ELSE "raised"
            /\ err' = IF writable THEN err ELSE "FileNotFoundError"
  /\ UNCHANGED <<mode, length, tpf2, time_step, x, points, opened, frames>>
  /\ UNCHANGED <<names, dvars, pvars, lvars>>

\* paintEvent: the window draws self.point
Paint(p) == [point |-> p]

\* keyPressEvent with the space key: draw_points starts, on every press
KeyPressSpace ==
  /\ pc = "shown"
  /\ presses < MaxPresses
  /\ presses' = presses + 1
  /\ draw_i' = 0
  /\ pc' = "draw"
  /\ UNCHANGED <<mode, length, tpf2, time_step, x, points, err, opened, frames,
                 json, saved, point>>
  /\ UNCHANGED <<names, pvars, lvars>>

\* one iteration of draw_points: the point is set and repainted; after the
\* last one keyPressEvent returns and the window takes key presses again
DrawPoint ==
  /\ pc = "draw"
  /\ draw_i < Len(points)
  /\ point' = points[draw_i + 1]
  /\ frames' = Append(frames, Paint(point'))
  /\ draw_i' = draw_i + 1
  /\ pc' = IF draw_i' = Len(points) THEN "shown" ELSE "draw"
  /\ UNCHANGED <<mode, length, tpf2, time_step, x, points, err, opened, json,
                 saved, presses>>
  /\ UNCHANGED <<names, pvars, lvars>>

\* ------------------------------------------------------------------------
\* Window.create_curves and Window.init_window
\* ------------------------------------------------------------------------

MaxFiles == 3

\* the names create_curves deletes before it returns
LoopLocals == {"root", "path_svg", "node_list"}

GoodShape ==
  [move |-> 2, chunks |-> <<[cmd |-> "C", n |-> 6], [cmd |-> "L", n |-> 2]>>,
   sep |-> " ", close |-> TRUE]
CommaShape == [GoodShape EXCEPT !.sep = ","]
ShortShape == [GoodShape EXCEPT !.chunks[1].n = 5]

\* a file is XML that ET.parse reads or rejects, and the "d" attribute of its path
FileKinds ==
  { [xml |-> "unreadable", d |-> <<>>],
    [xml |-> "ok", d |-> PathText(GoodShape)],
    [xml |-> "ok", d |-> PathText(CommaShape)],
    [xml |-> "ok", d |-> PathText(ShortShape)] }

Batches == UNION {[1..k -> FileKinds] : k \in 0..MaxFiles}

\* BezierPath.fromNodelist(node_list) of the beziers library
FromNodelist(nodes) == [kind |-> "BezierPath", nodes |-> nodes]

\* the default of self.curves.get(self.curve_num, 0)
FallbackCurve == [kind |-> "int", nodes |-> <<>>]

\* the None that get_curve_choice returns when the dialog is cancelled
None == 0 - 1

EmptyDict == [k \in {} |-> FallbackCurve]

\* the items get_curve_choice offers: map(str, range(len(self.curves)))
OfferedNumbers(cs) == 0..(Cardinality(DOMAIN cs) - 1)

\* self.curves.get(self.curve_num, 0)
CurvesGet(cs, num) == IF num \in DOMAIN cs THEN cs[num] ELSE FallbackCurve

\* lines 110-112: no file matches, the program exits
NoCurvesExit ==
  /\ lpc = "glob"
  /\ Len(files) = 0
  /\ lpc' = "exit"
  /\ UNCHANGED <<files, curve_idx, curves, locals, failures, lerr, curve_num, curve>>
  /\ UNCHANGED <<svars, pvars>>

\* one iteration of the loop of create_curves, lines 115-126: only SyntaxError
\* (ET.parse) and AssertionError are caught
LoadFile ==
  /\ lpc = "glob"
  /\ curve_idx < Len(files)
  /\ LET f == files[curve_idx + 1]
         r == parse_svg_str(f.d)
     IN  IF f.xml = "unreadable"
         THEN /\ failures' = Append(failures, curve_idx)
              /\ curve_idx' = curve_idx + 1
              /\ UNCHANGED <<lpc, curves, locals, lerr>>
         ELSE IF r.err # "none"
         THEN /\ lpc' = "raised"
              /\ lerr' = r.err
              /\ locals' = locals \cup {"root", "path_svg"}
              /\ UNCHANGED <<curve_idx, curves, failures>>
         ELSE /\ curves' = (curve_idx :> FromNodelist(r.nodes)) @@ curves
              /\ locals' = LoopLocals
              /\ curve_idx' = curve_idx + 1
              /\ UNCHANGED <<lpc, failures, lerr>>
  /\ UNCHANGED <<files, curve_num, curve>>
  /\ UNCHANGED <<svars, pvars>>

\* line 134, "del root, path_svg, node_list", and the return of the dictionary
ReturnCurves ==
  /\ lpc = "glob"
  /\ Len(files) > 0
  /\ curve_idx = Len(files)
  /\ IF locals = LoopLocals
     THEN lpc' = "loaded" /\ lerr' = lerr
     ELSE lpc' = "raised" /\ lerr' = "UnboundLocalError"
  /\ UNCHANGED <<files, curve_idx, curves, locals, failures, curve_num, curve>>
  /\ UNCHANGED <<svars, pvars>>

\* init_window: get_curve_choice (an offered number, or None when cancelled)
\* and self.curve = self.curves.get(self.curve_num, 0)
InitWindow ==
  /\ lpc = "loaded"
  /\ \E choice \in OfferedNumbers(curves) \cup {None} :
       /\ curve_num' = choice
       /\ curve' = CurvesGet(curves, choice)
  /\ lpc' = "window"
  /\ UNCHANGED <<files, curve_idx, curves, locals, failures, lerr>>
  /\ UNCHANGED <<svars, pvars>>

\* line 152 of curve_as_points: "length = self.curve.length"
ReadCurveLength ==
  /\ lpc = "window"
  /\ IF curve.kind = "BezierPath"
     THEN lpc' = "sampling" /\ lerr' = lerr
     ELSE lpc' = "crashed" /\ lerr' = "AttributeError"
  /\ UNCHANGED <<files, curve_idx, curves, locals, failures, curve_num, curve>>
  /\ UNCHANGED <<svars, pvars>>

\* ------------------------------------------------------------------------
\* The call of parse_svg_str
\* ------------------------------------------------------------------------

ParseSvgStr ==
  /\ ppc = "call"
  /\ result' = parse_svg_str(svg_str)
  /\ ppc' = IF result'.err = "none" THEN "returned" ELSE "raised"
  /\ UNCHANGED <<shape, svg_str>>
  /\ UNCHANGED <<svars, lvars>>

\* ------------------------------------------------------------------------
\* Specifications
\* ------------------------------------------------------------------------

NoResult == [err |-> "none", nodes |-> <<>>]

SessionIdle ==
  /\ mode = "video"
  /\ length = 0
  /\ tpf2 = 0
  /\ pc = "idle"
  /\ time_step = NoFloat
  /\ x = ZeroDec
  /\ points = <<>>
  /\ err = "none"
  /\ opened = "unset"
  /\ frames = <<>>
  /\ json = <<>>
  /\ saved = FALSE
  /\ point = NoPoint
  /\ presses = 0
  /\ draw_i = 0
  /\ names = {}

ParserIdle ==
  /\ shape = GoodShape
  /\ svg_str = <<>>
  /\ ppc = "idle"
  /\ result = NoResult

LoaderIdle ==
  /\ files = <<>>
  /\ lpc = "idle"
  /\ curve_idx = 0
  /\ curves = EmptyDict
  /\ locals = {}
  /\ failures = <<>>
  /\ lerr = "none"
  /\ curve_num = None
  /\ curve = FallbackCurve

\* a session: VideoSession.start, or Window.__init__ from curve_as_points on
Init ==
  /\ mode \in Modes
  /\ length \in 0..MaxLength
  /\ tpf2 \in IF mode = "video" THEN TpfHalves ELSE {2}
  /\ pc = IF mode = "video" THEN "module" ELSE "start"
  /\ time_step = NoFloat
  /\ x = ZeroDec
  /\ points = <<>>
  /\ err = "none"
  /\ opened = "unset"
  /\ frames = <<>>
  /\ json = <<>>
  /\ saved = FALSE
  /\ point = NoPoint
  /\ presses = 0
  /\ draw_i = 0
  /\ names = {}
  /\ ParserIdle
  /\ LoaderIdle

Next ==
  \/ ExecModule
  \/ ComputeStep
  \/ DrangeStep
  \/ DrangeExit
  \/ OpenVideo
  \/ WriteFrame
  \/ ReleaseAndSave
  \/ WindowPoints
  \/ KeyPressSpace
  \/ DrawPoint

Spec == Init /\ [][Next]_vars

\* parse_svg_str on the path strings of Shapes
InitParse ==
  /\ shape \in Shapes
  /\ svg_str = PathText(shape)
  /\ ppc = "call"
  /\ result = NoResult
  /\ SessionIdle
  /\ LoaderIdle

NextParse == ParseSvgStr

SpecParse == InitParse /\ [][NextParse]_vars

\* Window.__init__ over a directory of path files
InitLoad ==
  /\ files \in Batches
  /\ lpc = "glob"
  /\ curve_idx = 0
  /\ curves = EmptyDict
  /\ locals = {}
  /\ failures = <<>>
  /\ lerr = "none"
  /\ curve_num = None
  /\ curve = FallbackCurve
  /\ SessionIdle
  /\ ParserIdle

NextLoad ==
  \/ NoCurvesExit
  \/ LoadFile
  \/ ReturnCurves
  \/ InitWindow
  \/ ReadCurveLength

SpecLoad == InitLoad /\ [][NextLoad]_vars

\* ------------------------------------------------------------------------
\* Properties of the sampler and the sessions (Spec)
\* ------------------------------------------------------------------------

Stepped == pc \notin {"idle", "module", "start", "raised"}

\* curve_as_points has been called
SamplerCalled == pc \notin {"idle", "module", "start"} /\ err # "NameError"

StepPositive == Stepped /\ FloatCmp(ZeroFloat, time_step) < 0

StepInUnit == StepPositive /\ FloatCmp(time_step, OneFloat) < 0

\* the parameter at which the point of index i (from 0) was evaluated
ParamAt(i) == points[i + 1].at

\* -1, 0, 1 as n * s < 1, n * s = 1, n * s > 1, exactly
TimesCmpOne(n, s) == BigCmp(BigMulSmall(s.num, n), Pow2(s.k))

UlpBits == MantBits + 1

\* | t - i * s | < 2^-53, exactly: t is i * s up to the rounding of a double
NearMultiple(t, i, s) ==
  LET kk == IF t.k > s.k THEN (IF t.k > UlpBits THEN t.k ELSE UlpBits)
            ELSE (IF s.k > UlpBits THEN s.k ELSE UlpBits)
      a  == BigMulPow(t.num, 2, kk - t.k)
      b  == BigMulPow(BigMulSmall(s.num, i), 2, kk - s.k)
      d  == IF BigCmp(a, b) < 0 THEN BigSub(b, a) ELSE BigSub(a, b)
  IN  ~t.neg /\ BigCmp(d, Pow2(kk - UlpBits)) < 0

\* t = i * s, exactly
ExactMultiple(t, i, s) ==
  /\ ~t.neg
  /\ BigMulPow(t.num, 2, s.k) = BigMulPow(BigMulSmall(s.num, i), 2, t.k)

\* C1, as amended: for a step s with 0 < s < 1 the sampler returns ceil(1/s)
\* points, the least N with N * s >= 1, and the point of index i is evaluated
\* at i * s up to floating-point rounding.
C1_CeilCount ==
  (pc = "sampled" /\ StepInUnit) =>
    LET n == Len(points)
    IN  /\ n >= 1
        /\ TimesCmpOne(n - 1, time_step) < 0
        /\ TimesCmpOne(n, time_step) >= 0
        /\ \A i \in 0..(n - 1) : NearMultiple(ParamAt(i), i, time_step)

\* C1 witness: a sampled path whose step does not divide 1 (three steps fall short)
C1_Witness ==
  /\ pc = "sampled"
  /\ StepInUnit
  /\ Len(points) = 4
  /\ TimesCmpOne(3, time_step) < 0
  /\ TimesCmpOne(4, time_step) > 0

\* C1, as stated: floor(1/s) points, the point of index i evaluated at i * s.
C1_FloorCount ==
  (pc = "sampled" /\ StepInUnit) =>
    LET n == Len(points)
    IN  /\ TimesCmpOne(n, time_step) <= 0
        /\ TimesCmpOne(n + 1, time_step) > 0
        /\ \A i \in 0..(n - 1) : ExactMultiple(ParamAt(i), i, time_step)

\* C2: for a positive step the evaluated parameters start at 0, increase
\* strictly and all satisfy 0 <= t < 1; the point at t = 1 is never appended.
C2_ParamsBelowOne ==
  StepPositive =>
    /\ Len(points) >= 1 => ParamAt(0) = ZeroFloat
    /\ \A i \in 0..(Len(points) - 1) :
         /\ FloatCmp(ZeroFloat, ParamAt(i)) <= 0
         /\ FloatCmp(ParamAt(i), OneFloat) < 0
         /\ i > 0 => FloatCmp(ParamAt(i - 1), ParamAt(i)) < 0

\* C6: sampling a path of length zero returns a motion path of zero points; it
\* does not fail.
C6_ZeroLengthNoPoints ==
  (length = 0 /\ SamplerCalled) =>
    /\ err = "none"
    /\ pc # "raised"
    /\ points = <<>>

\* C7: a time-per-frame value tpf <= 0 (a step that is zero or negative) is
\* rejected with an error and no point is produced; for a step > 0 the loop
\* ends, having run while (n - 1) * s < 1.
C7_NonPositiveStepRejected ==
  /\ (mode = "video" /\ tpf2 <= 0 /\ SamplerCalled) =>
       (pc = "raised" /\ err # "none" /\ points = <<>>)
  /\ (StepPositive /\ Len(points) >= 1) =>
       TimesCmpOne(Len(points) - 1, time_step) < 0

\* C8: when the motion-path JSON of a video session is written with N records,
\* exactly N frames were written to the video, also in the run where opening
\* the video file fails.
C8_FramesMatchRecords ==
  (mode = "video" /\ saved) => Len(frames) = Len(json)

\* C9: the records written by save_curve_points in a video session carry idx
\* 0, 1, 2, ... equal to their position, strictly increasing, and record k
\* holds the x and y of the k-th sampled point.
C9_IdxMatchesPosition ==
  (mode = "video" /\ saved) =>
    /\ Len(json) = Len(points)
    /\ \A k \in 1..Len(json) :
         /\ json[k].idx = k - 1
         /\ k > 1 => json[k].idx > json[k - 1].idx
         /\ json[k].x = PX(points[k])
         /\ json[k].y = PY(points[k])

\* C9 witness: a video session has saved a motion path of several points
C9_Witness ==
  /\ mode = "video"
  /\ saved
  /\ Len(json) >= 3
  /\ opened = "ok"

\* ------------------------------------------------------------------------
\* Properties of parse_svg_str (SpecParse)
\* ------------------------------------------------------------------------

Accepted == ppc = "returned"

NumberCount == TotalNumbers(shape, 1)

\* move-to with its pair, every curve-to with six numbers, every line-to with two
WellFormedShape ==
  /\ shape.move = 2
  /\ \A i \in 1..Len(shape.chunks) :
       \/ shape.chunks[i] = [cmd |-> "C", n |-> 6]
       \/ shape.chunks[i] = [cmd |-> "L", n |-> 2]

\* two Controls and an Anchor at the numbers first .. first + 5
CubicNodes(first) ==
  <<Node(first, first + 1, "offcurve"), Node(first + 2, first + 3, "offcurve"),
    Node(first + 4, first + 5, "curve")>>

\* C3: for an accepted path string the first node is an Anchor at the first
\* coordinate pair and the last node an Anchor at the last coordinate pair of
\* the path; a move-to followed by one six-number curve-to yields the Anchor of
\* the move-to and, after the two Controls, the Anchor at the curve-to's third
\* pair.  Stated for the well-formed path strings.
C3_AnchorsAtPathEnds ==
  (Accepted /\ WellFormedShape /\ shape.sep = " ") =>
    /\ result.nodes # <<>>
    /\ result.nodes[1] = Node(1, 2, "curve")
    /\ result.nodes[Len(result.nodes)] = Node(NumberCount - 1, NumberCount, "curve")
    /\ (Len(shape.chunks) = 1 /\ shape.chunks[1].cmd = "C")
         => result.nodes = <<Node(1, 2, "curve")>> \o CubicNodes(3)

\* C4: a path string with a curve-to command that does not supply exactly six
\* numbers ends in an error, wherever the command stands.  Stated for the
\* curve-to commands of five numbers after a move-to with its pair.
C4_CurveNeedsSixNumbers ==
  (ppc # "call" /\ shape.move = 2 /\ shape.sep = " "
     /\ \E i \in 1..Len(shape.chunks) : shape.chunks[i] = [cmd |-> "C", n |-> 5])
    => ppc = "raised"

\* ------------------------------------------------------------------------
\* Properties of the batch loader (SpecLoad)
\* ------------------------------------------------------------------------

WellFormed(f) == f.xml = "ok" /\ parse_svg_str(f.d).err = "none"

CreateCurvesReturned == lpc \in {"loaded", "window", "sampling", "crashed"}

\* C5: a failing file is recorded and skipped, every well-formed file ends up
\* as a loaded curve, and no exception leaves create_curves.
C5_FailuresAreSkipped ==
  /\ lpc # "raised"
  /\ CreateCurvesReturned =>
       \A i \in 1..Len(files) :
         IF WellFormed(files[i]) THEN (i - 1) \in DOMAIN curves
         ELSE \E j \in 1..Len(failures) : failures[j] = i - 1

\* C10: the keys of the loaded-curves map are exactly 0 .. len - 1, so every
\* offered curve number selects a loaded path model, never the fallback 0.
C10_OfferedNumbersAreKeys ==
  CreateCurvesReturned =>
    /\ DOMAIN curves = OfferedNumbers(curves)
    /\ (lpc # "loaded" /\ curve_num # None) => curve.kind = "BezierPath"

====
